---- MODULE Spec2Model ----
(***************************************************************************)
(* Model of ext4_utils/ext4_crypt.cpp: e4crypt_policy_set,                 *)
(* e4crypt_policy_get and e4crypt_policy_ensure, with the helpers          *)
(* policy_to_hex and is_dir_empty, run by several callers against one      *)
(* kernel that stores at most one encryption policy record per directory.  *)
(*                                                                         *)
(* The two ioctls, which read and write what the kernel stores, are steps  *)
(* of their own, so calls of different callers interleave around them; the *)
(* checks before an ioctl read only what no call changes and are one step. *)
(***************************************************************************)
EXTENDS Integers, Sequences, FiniteSets, TLC

\* ------------------------------------------------------------- constants

EXT4_KEY_DESCRIPTOR_SIZE == 8
EXT4_KEY_DESCRIPTOR_SIZE_HEX == 17
EXT4_ENCRYPTION_MODE_AES_256_XTS == 1
EXT4_ENCRYPTION_MODE_AES_256_CTS == 4

\* ---------------------------------------------------------------- bounds

\* Calls started in one behaviour, all callers together.
MaxCalls == 3

Procs == {"t1", "t2"}
FirstProc == "t1"
Dirs == {"dirA"}

\* Key descriptors the callers pass; they differ in the last byte only.
Desc1 == <<0, 17, 34, 51, 68, 85, 102, 119>>
Desc2 == <<0, 17, 34, 51, 68, 85, 102, 248>>
Descs == {Desc1, Desc2}

\* Buffers a caller passes as (policy, policy_length): the length passed is
\* the length of the buffer.  The buffer that is too long is passed here,
\* the one that is too short to e4crypt_policy_get.
Buffers == Descs \cup {Desc1 \o <<136>>}

\* Output buffers a caller passes to e4crypt_policy_get, with their content
\* before the call.
OutBuffers == {Desc2, SubSeq(Desc2, 1, 7)}

\* Directory listings in readdir order.
Listings ==
    { <<".", "..">>,
      <<".", "lost+found", "..">>,
      <<".", "..", "file">> }

\* A directory without a policy record; a local that was never written; a
\* caller that has completed no call yet.
NoPolicy == [ none |-> TRUE ]
UninitEep == [ uninit |-> TRUE ]
UninitBuf == << >>
NoCall == [ pc |-> "nocall" ]

\* ------------------------------------------------ the policy record

\* struct ext4_encryption_policy
Eep(v, c, f, fl, d) ==
    [ version |-> v,
      contents_encryption_mode |-> c,
      filenames_encryption_mode |-> f,
      flags |-> fl,
      master_key_descriptor |-> d ]

\* memset(&eep, 0, sizeof(ext4_encryption_policy))
ZeroEep == Eep(0, 0, 0, 0, <<0, 0, 0, 0, 0, 0, 0, 0>>)

\* SetRecord with the two mode fields exchanged.
SetRecord_swappedModes(policy) ==
    Eep(0, EXT4_ENCRYPTION_MODE_AES_256_CTS, EXT4_ENCRYPTION_MODE_AES_256_XTS,
        0, SubSeq(policy, 1, EXT4_KEY_DESCRIPTOR_SIZE))

\* SetRecord copying one byte too few of the descriptor: the last byte of
\* master_key_descriptor is not the caller's.
SetRecord_shortCopy(policy) ==
    Eep(0, EXT4_ENCRYPTION_MODE_AES_256_XTS, EXT4_ENCRYPTION_MODE_AES_256_CTS,
        0, SubSeq(policy, 1, EXT4_KEY_DESCRIPTOR_SIZE - 1) \o <<0>>)

\* The record e4crypt_policy_set builds from the caller's descriptor.
SetRecord(policy) ==
    Eep(0, EXT4_ENCRYPTION_MODE_AES_256_XTS, EXT4_ENCRYPTION_MODE_AES_256_CTS,
        0, SubSeq(policy, 1, EXT4_KEY_DESCRIPTOR_SIZE))

\* GetAccepts without the test of flags.
GetAccepts_noFlags(eep) ==
    /\ eep.version = 0
    /\ eep.contents_encryption_mode = EXT4_ENCRYPTION_MODE_AES_256_XTS
    /\ eep.filenames_encryption_mode = EXT4_ENCRYPTION_MODE_AES_256_CTS

\* The test e4crypt_policy_get applies to the record the kernel returned.
GetAccepts(eep) ==
    /\ eep.version = 0
    /\ eep.contents_encryption_mode = EXT4_ENCRYPTION_MODE_AES_256_XTS
    /\ eep.filenames_encryption_mode = EXT4_ENCRYPTION_MODE_AES_256_CTS
    /\ eep.flags = 0

\* MemcmpEqual comparing one byte instead of EXT4_KEY_DESCRIPTOR_SIZE.
MemcmpEqual_firstByte(a, b) == a[1] = b[1]

\* memcmp(policy, existing_policy, EXT4_KEY_DESCRIPTOR_SIZE) == 0
MemcmpEqual(a, b) ==
    \A i \in 1..EXT4_KEY_DESCRIPTOR_SIZE : a[i] = b[i]

\* Records a directory may carry before any call of this program: the
\* recognised tuple, and one record per field that deviates from it.
ForeignRecords ==
    { Eep(0, 1, 4, 0, Desc1),
      Eep(1, 1, 4, 0, Desc1),
      Eep(0, 2, 4, 0, Desc1),
      Eep(0, 1, 1, 0, Desc1),
      Eep(0, 1, 4, 2, Desc1) }

\* ------------------------------------------------------ policy_to_hex
\* #define HEX_LOOKUP "0123456789abcdef", indexed from 0 in the source.
HEX_LOOKUP ==
    <<"0", "1", "2", "3", "4", "5", "6", "7",
      "8", "9", "a", "b", "c", "d", "e", "f">>

\* The value of a char that holds byte b: char is signed on some targets
\* and unsigned on others.
CharValue(b, char_signed) == IF char_signed /\ b >= 128 THEN b - 256 ELSE b

\* (c & 0xF0) >> 4 and c & 0x0F for a char c promoted to int: the masks keep
\* bits 4..7 and 0..3 of the two's complement representation.
HighNibble(c) == (((c + 256) % 256) \div 16) % 16
LowNibble(c) == ((c + 256) % 256) % 16

\* The two characters one round of the loop stores, in the order stored.
HexPair_lowFirst(c) == <<HEX_LOOKUP[LowNibble(c) + 1], HEX_LOOKUP[HighNibble(c) + 1]>>

HexPair(c) == <<HEX_LOOKUP[HighNibble(c) + 1], HEX_LOOKUP[LowNibble(c) + 1]>>

\* A char array of n elements nothing has been stored in.
UninitChars(n) == [k \in 1..n |-> "?"]

\* The loop of policy_to_hex from round i on (i counts from 1): the
\* characters it stores in hex, in the order of j.
RECURSIVE HexLoop(_, _, _)
HexLoop(policy, char_signed, i) ==
    IF i > EXT4_KEY_DESCRIPTOR_SIZE THEN << >>
    ELSE HexPair(CharValue(policy[i], char_signed)) \o HexLoop(policy, char_signed, i + 1)

\* policy_to_hex(policy, hex): the loop stores hex[0] to hex[15], then the
\* terminator goes to hex[EXT4_KEY_DESCRIPTOR_SIZE_HEX - 1]; every element
\* of the buffer is stored to.
policy_to_hex(policy, char_signed) == HexLoop(policy, char_signed, 1) \o <<"NUL">>

\* The char array policy_hex (existing_policy_hex) the three functions hand
\* to their log lines, computed as a build with a signed char computes it.
PolicyHex(policy) == policy_to_hex(policy, TRUE)

\* ------------------------------------------------------- is_dir_empty

\* The readdir loop from entry i on, n entries counted so far: "lost+found"
\* is skipped, and the loop breaks as soon as a third entry is counted.
RECURSIVE ScanDir(_, _, _)
ScanDir(entries, i, n) ==
    IF i > Len(entries) THEN n
    ELSE IF entries[i] = "lost+found" THEN ScanDir(entries, i + 1, n)
    ELSE IF n + 1 > 2 THEN n + 1
    ELSE ScanDir(entries, i + 1, n + 1)

\* is_dir_empty with the bound off by one: return n <= 3.
is_dir_empty_offByOne(entries) == ScanDir(entries, 1, 0) <= 3

is_dir_empty(entries) == ScanDir(entries, 1, 0) <= 2

\* ------------------------------------------------------------- state

VARIABLES
    kernelPolicy,   \* per directory: the record the kernel stores, or NoPolicy
    listing,        \* per directory: its entries in readdir order
    writable,       \* per directory: access(directory, W_OK) succeeds
    openable,       \* per directory: open(O_DIRECTORY | O_NOFOLLOW) succeeds
    proc,           \* per caller: the call it is in
    prev,           \* per caller: the call it completed last
    openFds,        \* per caller: directory descriptors open in its process
    setAccepted,    \* per directory: set requests the kernel accepted
    ncalls,         \* calls started
    hexRun,         \* policy_to_hex run on its own: arguments and buffer
    scanRun         \* is_dir_empty run on its own: listing, locals, DIR *

vars == <<kernelPolicy, listing, writable, openable, proc, prev, openFds,
          setAccepted, ncalls, hexRun, scanRun>>

env == <<listing, writable, openable>>

\* The two static functions run on their own, which no call of the three
\* exported functions touches.
alone == <<hexRun, scanRun>>

\* Neither static function is being run on its own.
NoRun == [ pc |-> "norun" ]

Idle == [ pc |-> "idle" ]

\* What a path can be when the first call starts.  A path that cannot be
\* opened as a directory (missing, a file, a symlink) has no listing to scan
\* and no record.  A directory lists its entries and carries no record or
\* one written earlier; of the directories the caller may not write, whose
\* listing no call reaches, the empty ones stand for all, and of those with
\* a record of another tuple, which every call reads and refuses before it
\* lists the directory, the empty ones and one with a file.
DirStates ==
    { [ openable |-> FALSE, writable |-> w, listing |-> <<".", "..">>, policy |-> NoPolicy ] :
        w \in BOOLEAN }
    \cup
    { [ openable |-> TRUE, writable |-> FALSE, listing |-> <<".", "..">>, policy |-> r ] :
        r \in {NoPolicy, Eep(0, 1, 4, 0, Desc1)} }
    \cup
    { [ openable |-> TRUE, writable |-> TRUE, listing |-> l, policy |-> r ] :
        l \in Listings, r \in {NoPolicy, Eep(0, 1, 4, 0, Desc1)} }
    \cup
    { [ openable |-> TRUE, writable |-> TRUE, listing |-> <<".", "..">>, policy |-> r ] :
        r \in ForeignRecords }
    \cup
    { [ openable |-> TRUE, writable |-> TRUE, listing |-> <<".", "..", "file">>,
        policy |-> Eep(0, 1, 4, 2, Desc1) ] }

Init ==
    /\ \E st \in [Dirs -> DirStates] :
           /\ kernelPolicy = [d \in Dirs |-> st[d].policy]
           /\ listing = [d \in Dirs |-> st[d].listing]
           /\ writable = [d \in Dirs |-> st[d].writable]
           /\ openable = [d \in Dirs |-> st[d].openable]
    /\ proc = [p \in Procs |-> Idle]
    /\ prev = [p \in Procs |-> NoCall]
    /\ openFds = [p \in Procs |-> 0]
    /\ setAccepted = [d \in Dirs |-> 0]
    /\ ncalls = 0
    /\ hexRun = NoRun
    /\ scanRun = NoRun

\* ------------------------------------------------------------ the kernel

\* EXT4_IOC_GET_ENCRYPTION_POLICY: succeeds iff the directory carries a record.
KernelGetOk(rec) == rec # NoPolicy

\* EXT4_IOC_SET_ENCRYPTION_POLICY: the verdicts the kernel may give on a set
\* request carrying eep for a directory that stores rec and lists entries.
\* The source only passes the verdict on (the ioctl's result decides the
\* return value), so the kernel is the environment here:
\*  - a directory without a record takes the policy if it is empty and
\*    refuses it if it holds a file;
\*  - a directory whose only extra entry is lost+found is empty for
\*    is_dir_empty; whether the kernel agrees is left open;
\*  - a directory that stores another record refuses; no request ever
\*    replaces or removes a stored record;
\*  - a request that repeats the stored record changes nothing; ext4 answers
\*    it with success (the policy is consistent with the stored context),
\*    a kernel that refuses every request on a directory with a policy
\*    answers failure, so both verdicts are allowed.
KernelSetVerdicts(rec, entries, eep) ==
    IF rec = NoPolicy
    THEN IF \E i \in 1..Len(entries) : entries[i] \notin {".", "..", "lost+found"}
         THEN {FALSE}
         ELSE IF \E i \in 1..Len(entries) : entries[i] = "lost+found"
              THEN {TRUE, FALSE}
              ELSE {TRUE}
    ELSE IF rec = eep THEN {TRUE, FALSE} ELSE {FALSE}

\* ------------------------------------------------------------- steps

\* The call returns r to the caller.
Finish(f, r) == [f EXCEPT !.pc = "ret", !.ret = r]

Sys(f, calls) == [f EXCEPT !.sys = @ \o calls]

\* LOG(level) / PLOG(level) << text << args: one line of log output.
Log(f, level, text, args) ==
    [f EXCEPT !.log = Append(@, [level |-> level, text |-> text, args |-> args])]

WrongLength(f, policy_length) ==
    Log(f, "ERROR", "Policy wrong length: ", <<policy_length>>)

\* BadLength that rejects short buffers only.
BadLength_shortOnly(policy_length) == policy_length < EXT4_KEY_DESCRIPTOR_SIZE

\* policy_length != EXT4_KEY_DESCRIPTOR_SIZE, the first test of all three
\* functions.
BadLength(policy_length) == policy_length # EXT4_KEY_DESCRIPTOR_SIZE

\* EnterSet that returns -1 for a wrong length without a log line.
EnterSet_silent(f, policy_length) ==
    IF BadLength(policy_length) THEN Finish(f, -1)
    ELSE [f EXCEPT !.pc = "set_guard"]

\* Entry of e4crypt_policy_set with the given length.  In both callers it is
\* in tail position: what it returns is what the call returns.
EnterSet(f, policy_length) ==
    IF BadLength(policy_length) THEN Finish(WrongLength(f, policy_length), -1)
    ELSE [f EXCEPT !.pc = "set_guard"]

\* e4crypt_policy_ensure after e4crypt_policy_get returned 0: the memcmp of
\* the requested and the existing descriptor decides the result.
EnsureCompare(f) ==
    LET policy_hex == PolicyHex(f.policy)
        existing_policy_hex == PolicyHex(f.existing_policy)
    IN IF MemcmpEqual(f.policy, f.existing_policy)
       THEN Finish(Log(f, "INFO", "Found policy  at  which matches expected value",
                       <<existing_policy_hex, f.directory>>), 0)
       ELSE Finish(Log(f, "ERROR", "Found policy  at  which doesn't match expected value ",
                       <<existing_policy_hex, f.directory, policy_hex>>), -1)

\* EnsureAfterGet without the early returns: it always goes on to
\* e4crypt_policy_set.
EnsureAfterGet_alwaysSet(f, r) == EnterSet(f, f.policy_length)

\* EnsureAfterGet that calls e4crypt_policy_get a second time when the
\* first call failed, before it goes on to e4crypt_policy_set.
EnsureAfterGet_retryGet(f, r) ==
    IF r = 0 THEN EnsureCompare(f)
    ELSE IF Cardinality({i \in 1..Len(f.sys) : f.sys[i] = "access"}) < 2
         THEN [f EXCEPT !.pc = "get_guard"]
         ELSE EnterSet(f, f.policy_length)

\* e4crypt_policy_ensure after e4crypt_policy_get returned r.
EnsureAfterGet(f, r) ==
    IF r = 0 THEN EnsureCompare(f) ELSE EnterSet(f, f.policy_length)

\* e4crypt_policy_get returns r: to the caller, or into
\* e4crypt_policy_ensure.
ReturnFromGet(f, r) ==
    IF f.op = "ensure" THEN EnsureAfterGet(f, r) ELSE Finish(f, r)

\* Entry of e4crypt_policy_get with the given length.
EnterGet(f, policy_length) ==
    IF BadLength(policy_length) THEN ReturnFromGet(WrongLength(f, policy_length), -1)
    ELSE [f EXCEPT !.pc = "get_guard"]

\* Entry of e4crypt_policy_ensure: the length test, then the call of
\* e4crypt_policy_get on existing_policy with EXT4_KEY_DESCRIPTOR_SIZE.
EnterEnsure(f) ==
    IF BadLength(f.policy_length) THEN Finish(WrongLength(f, f.policy_length), -1)
    ELSE EnterGet(f, EXT4_KEY_DESCRIPTOR_SIZE)

Frame(op, d, buf) ==
    [ pc |-> "entry",
      op |-> op,
      directory |-> d,
      policy |-> buf,
      policy_in |-> buf,
      policy_length |-> Len(buf),
      existing_policy |-> UninitBuf,
      get_eep |-> UninitEep,
      get_ioctl |-> "none",
      set_eep |-> UninitEep,
      set_ioctl |-> "none",
      ret |-> 0,
      sys |-> <<>>,
      log |-> <<>> ]

Enter(f) ==
    IF f.op = "set" THEN EnterSet(f, f.policy_length)
    ELSE IF f.op = "get" THEN EnterGet(f, f.policy_length)
    ELSE EnterEnsure(f)

\* The calls a caller may make: e4crypt_policy_set and e4crypt_policy_ensure
\* with any buffer, e4crypt_policy_get with an output buffer of any length
\* that holds whatever it held before.
CallInputs ==
    { <<op, buf>> : op \in {"set", "ensure"}, buf \in Buffers }
    \cup { <<"get", buf>> : buf \in OutBuffers }

\* A caller enters one of the three functions, up to its first system call.
\* The callers are interchangeable, so the first call is FirstProc's.
Call(p) ==
    /\ proc[p].pc = "idle"
    /\ ncalls < MaxCalls
    /\ p = FirstProc \/ ncalls > 0
    /\ \E in \in CallInputs, d \in Dirs :
           proc' = [proc EXCEPT ![p] = Enter(Frame(in[1], d, in[2]))]
    /\ ncalls' = ncalls + 1
    /\ UNCHANGED <<kernelPolicy, env, alone, prev, openFds, setAccepted>>

\* e4crypt_policy_set up to the ioctl: access(directory, W_OK), then
\* open(directory, O_DIRECTORY | O_NOFOLLOW | O_CLOEXEC), then
\* is_dir_empty(directory); the first that fails returns -1.  The return for
\* a directory that is not empty has no close(fd) before it in the source,
\* so the descriptor opened stays open.  The three read what no call
\* changes, so they are one step.
SetGuard(p) ==
    /\ proc[p].pc = "set_guard"
    /\ LET d == proc[p].directory
           accessed == Sys(proc[p], <<"access">>)
           opened == Sys(accessed, <<"open">>)
           scanned == Sys(opened, <<"opendir", "closedir">>)
       IN IF ~writable[d]
          THEN /\ proc' = [proc EXCEPT ![p] =
                      Finish(Log(accessed, "ERROR", "Failed to access directory ", <<d>>), -1)]
               /\ UNCHANGED openFds
          ELSE IF ~openable[d]
          THEN /\ proc' = [proc EXCEPT ![p] =
                      Finish(Log(opened, "ERROR", "Failed to open directory ", <<d>>), -1)]
               /\ UNCHANGED openFds
          ELSE IF ~is_dir_empty(listing[d])
          THEN /\ proc' = [proc EXCEPT ![p] =
                      Finish(Log(scanned, "ERROR",
                                 "Can only set policy on an empty directory ", <<d>>), -1)]
               /\ openFds' = [openFds EXCEPT ![p] = @ + 1]
          ELSE /\ proc' = [proc EXCEPT ![p] = [scanned EXCEPT !.pc = "set_ioctl"]]
               /\ openFds' = [openFds EXCEPT ![p] = @ + 1]
    /\ UNCHANGED <<kernelPolicy, env, alone, prev, setAccepted, ncalls>>

\* e4crypt_policy_set: ioctl(fd, EXT4_IOC_SET_ENCRYPTION_POLICY, &eep), then
\* close(fd) on both branches.
SetIoctl(p) ==
    /\ proc[p].pc = "set_ioctl"
    /\ LET d == proc[p].directory
           eep == SetRecord(proc[p].policy)
       IN \E ok \in KernelSetVerdicts(kernelPolicy[d], listing[d], eep) :
           /\ kernelPolicy' = IF ok THEN [kernelPolicy EXCEPT ![d] = eep]
                              ELSE kernelPolicy
           /\ setAccepted' = IF ok THEN [setAccepted EXCEPT ![d] = @ + 1]
                             ELSE setAccepted
           /\ proc' = [proc EXCEPT ![p] =
                  LET f == [Sys(@, <<"ioctl_set", "close">>) EXCEPT
                                !.set_eep = eep,
                                !.set_ioctl = IF ok THEN "ok" ELSE "failed"]
                  IN IF ok
                     THEN Finish(Log(f, "INFO", "Policy for  set to ",
                                     <<d, PolicyHex(f.policy)>>), 0)
                     ELSE Finish(Log(f, "ERROR", "Failed to set encryption policy for ",
                                     <<d>>), -1)]
    /\ openFds' = [openFds EXCEPT ![p] = @ - 1]
    /\ UNCHANGED <<env, alone, prev, ncalls>>

\* GetGuard without the access(directory, W_OK) test.
GetGuard_noAccess(p) ==
    /\ proc[p].pc = "get_guard"
    /\ LET d == proc[p].directory
           opened == Sys(proc[p], <<"open">>)
       IN IF ~openable[d]
          THEN /\ proc' = [proc EXCEPT ![p] =
                      ReturnFromGet(Log(opened, "ERROR", "Failed to open directory ", <<d>>), -1)]
               /\ UNCHANGED openFds
          ELSE /\ proc' = [proc EXCEPT ![p] = [opened EXCEPT !.pc = "get_ioctl"]]
               /\ openFds' = [openFds EXCEPT ![p] = @ + 1]
    /\ UNCHANGED <<kernelPolicy, env, alone, prev, setAccepted, ncalls>>

\* e4crypt_policy_get up to the ioctl: access(directory, W_OK), then
\* open(directory, O_DIRECTORY | O_NOFOLLOW | O_CLOEXEC); the first that
\* fails returns -1.
GetGuard(p) ==
    /\ proc[p].pc = "get_guard"
    /\ LET d == proc[p].directory
           accessed == Sys(proc[p], <<"access">>)
           opened == Sys(accessed, <<"open">>)
       IN IF ~writable[d]
          THEN /\ proc' = [proc EXCEPT ![p] =
                      ReturnFromGet(Log(accessed, "ERROR", "Failed to access directory ", <<d>>), -1)]
               /\ UNCHANGED openFds
          ELSE IF ~openable[d]
          THEN /\ proc' = [proc EXCEPT ![p] =
                      ReturnFromGet(Log(opened, "ERROR", "Failed to open directory ", <<d>>), -1)]
               /\ UNCHANGED openFds
          ELSE /\ proc' = [proc EXCEPT ![p] = [opened EXCEPT !.pc = "get_ioctl"]]
               /\ openFds' = [openFds EXCEPT ![p] = @ + 1]
    /\ UNCHANGED <<kernelPolicy, env, alone, prev, setAccepted, ncalls>>

\* The output buffer of e4crypt_policy_get after memcpy: the caller's policy
\* buffer, or existing_policy of e4crypt_policy_ensure.
StoreDescriptor(f, eep) ==
    IF f.op = "ensure"
    THEN [f EXCEPT !.existing_policy = eep.master_key_descriptor]
    ELSE [f EXCEPT !.policy = eep.master_key_descriptor]

\* GetCheck with the memcpy ahead of the tuple test.
GetCheck_copyFirst(f, eep) ==
    IF GetAccepts(eep)
    THEN ReturnFromGet(StoreDescriptor([f EXCEPT !.get_eep = eep], eep), 0)
    ELSE ReturnFromGet(Log(StoreDescriptor([f EXCEPT !.get_eep = eep], eep), "ERROR",
                           "Failed to find matching encryption policy for ",
                           <<f.directory>>), -1)

\* e4crypt_policy_get after the ioctl succeeded and fd is closed: the tuple
\* test, the memcpy and the return value.
GetCheck(f, eep) ==
    IF GetAccepts(eep)
    THEN ReturnFromGet(StoreDescriptor([f EXCEPT !.get_eep = eep], eep), 0)
    ELSE ReturnFromGet(Log([f EXCEPT !.get_eep = eep], "ERROR",
                           "Failed to find matching encryption policy for ",
                           <<f.directory>>), -1)

\* e4crypt_policy_get: memset, ioctl(fd, EXT4_IOC_GET_ENCRYPTION_POLICY,
\* &eep), close(fd) on both branches, then the tuple test.
GetIoctl(p) ==
    /\ proc[p].pc = "get_ioctl"
    /\ LET rec == kernelPolicy[proc[p].directory]
           f == Sys(proc[p], <<"ioctl_get", "close">>)
       IN proc' = [proc EXCEPT ![p] =
              IF KernelGetOk(rec)
              THEN GetCheck([f EXCEPT !.get_ioctl = "ok"], rec)
              ELSE ReturnFromGet(
                       Log([f EXCEPT !.get_eep = ZeroEep, !.get_ioctl = "failed"],
                           "WARNING", "Failed to get encryption policy for ",
                           <<f.directory>>), -1)]
    /\ openFds' = [openFds EXCEPT ![p] = @ - 1]
    /\ UNCHANGED <<kernelPolicy, env, alone, prev, setAccepted, ncalls>>

\* The call is over: the caller has its result and may call again.
Return(p) ==
    /\ proc[p].pc = "ret"
    /\ prev' = [prev EXCEPT ![p] = proc[p]]
    /\ proc' = [proc EXCEPT ![p] = Idle]
    /\ UNCHANGED <<kernelPolicy, env, alone, openFds, setAccepted, ncalls>>

Next ==
    \E p \in Procs :
        \/ Call(p)
        \/ SetGuard(p)
        \/ SetIoctl(p)
        \/ GetGuard(p)
        \/ GetIoctl(p)
        \/ Return(p)

Spec == Init /\ [][Next]_vars

\* A step of the function caller p is in.  Every system call of the three
\* functions returns, so a call that has a step to take takes it.
Step(p) == SetGuard(p) \/ SetIoctl(p) \/ GetGuard(p) \/ GetIoctl(p)

\* Calls started in the behaviours checked for termination.
MaxFairCalls == 2

FairNext ==
    \E p \in Procs :
        \/ Call(p) /\ ncalls < MaxFairCalls
        \/ SetGuard(p)
        \/ SetIoctl(p)
        \/ GetGuard(p)
        \/ GetIoctl(p)
        \/ Return(p)

FairSpec == Init /\ [][FairNext]_vars /\ \A p \in Procs : WF_vars(Step(p))

\* ------------------------------------------- policy_to_hex on its own

\* No caller is in any of the three exported functions and none has been.
NoCallers ==
    /\ kernelPolicy = [d \in Dirs |-> NoPolicy]
    /\ listing = [d \in Dirs |-> <<".", "..">>]
    /\ writable = [d \in Dirs |-> TRUE]
    /\ openable = [d \in Dirs |-> TRUE]
    /\ proc = [p \in Procs |-> Idle]
    /\ prev = [p \in Procs |-> NoCall]
    /\ openFds = [p \in Procs |-> 0]
    /\ setAccepted = [d \in Dirs |-> 0]
    /\ ncalls = 0

called == <<kernelPolicy, listing, writable, openable, proc, prev, openFds,
            setAccepted, ncalls>>

\* The values of a byte.
Bytes == 0..255

\* The descriptors policy_to_hex is run on: Desc1 with any one byte replaced
\* by any value, so every value occurs at every place.
HexInputs ==
    { [Desc1 EXCEPT ![k] = b] : k \in 1..EXT4_KEY_DESCRIPTOR_SIZE, b \in Bytes }

HexInit ==
    /\ NoCallers
    /\ scanRun = NoRun
    /\ \E policy \in HexInputs, char_signed \in BOOLEAN :
           hexRun = [ pc |-> "call",
                      policy |-> policy,
                      char_signed |-> char_signed,
                      hex |-> UninitChars(EXT4_KEY_DESCRIPTOR_SIZE_HEX) ]

\* policy_to_hex(policy, hex) runs and returns.
HexCall ==
    /\ hexRun.pc = "call"
    /\ hexRun' = [hexRun EXCEPT
                      !.pc = "done",
                      !.hex = policy_to_hex(hexRun.policy, hexRun.char_signed)]
    /\ UNCHANGED <<called, scanRun>>

HexNext == HexCall

SpecHex == HexInit /\ [][HexNext]_vars

\* -------------------------------------------- is_dir_empty on its own

\* File names a directory may list besides ".", ".." and "lost+found".
FileNames == {"a", "b", "c"}

\* The longest listing is_dir_empty is run on.
MaxEntries == 5

\* The listings is_dir_empty is run on: "." and ".." and any of the other
\* names, each once, in any order.
ScanInputs ==
    UNION { { l \in [1..n -> {".", "..", "lost+found"} \cup FileNames] :
                /\ \A i, j \in 1..n : l[i] = l[j] => i = j
                /\ \E i \in 1..n : l[i] = "."
                /\ \E i \in 1..n : l[i] = ".." } : n \in 2..MaxEntries }

ScanInit ==
    /\ NoCallers
    /\ hexRun = NoRun
    /\ \E entries \in ScanInputs :
           scanRun = [ pc |-> "opendir",
                       entries |-> entries,
                       next |-> 1,
                       n |-> 0,
                       dir |-> "none",
                       ret |-> FALSE ]

\* dir = opendir(dirname).
ScanOpen ==
    /\ scanRun.pc = "opendir"
    /\ scanRun' = [scanRun EXCEPT !.pc = "readdir", !.dir = "open"]
    /\ UNCHANGED <<called, hexRun>>

\* The body of the while loop for the entry with name d_name, that counts
\* "lost+found" like any other entry.
LoopBody_countsAll(run, d_name) ==
    IF run.n + 1 > 2
    THEN [run EXCEPT !.n = @ + 1, !.pc = "closedir"]
    ELSE [run EXCEPT !.n = @ + 1]

\* The body of the while loop for the entry with name d_name: skip
\* "lost+found", else count the entry and break at the third.
LoopBody(run, d_name) ==
    IF d_name = "lost+found" THEN run
    ELSE IF run.n + 1 > 2
    THEN [run EXCEPT !.n = @ + 1, !.pc = "closedir"]
    ELSE [run EXCEPT !.n = @ + 1]

\* One round of while ((d = readdir(dir)) != NULL): the end of the listing
\* leaves the loop, an entry runs the body.
ScanRead ==
    /\ scanRun.pc = "readdir"
    /\ scanRun' =
           IF scanRun.next > Len(scanRun.entries)
           THEN [scanRun EXCEPT !.pc = "closedir"]
           ELSE LoopBody([scanRun EXCEPT !.next = @ + 1],
                         scanRun.entries[scanRun.next])
    /\ UNCHANGED <<called, hexRun>>

\* closedir(dir); return n <= 2.
ScanClose ==
    /\ scanRun.pc = "closedir"
    /\ scanRun' = [scanRun EXCEPT !.pc = "done", !.dir = "closed",
                                  !.ret = (scanRun.n <= 2)]
    /\ UNCHANGED <<called, hexRun>>

ScanNext == ScanOpen \/ ScanRead \/ ScanClose

SpecScan == ScanInit /\ [][ScanNext]_vars

\* ------------------------------------------------------- reading a call

\* The characters of a char array from index k up to its terminator: the
\* string a reader of the array sees.
RECURSIVE CString(_, _)
CString(hex, k) ==
    IF k > Len(hex) \/ hex[k] = "NUL" THEN << >>
    ELSE <<hex[k]>> \o CString(hex, k + 1)

\* The call of caller p has returned and p has not called again.
Returned(p) == proc[p].pc = "ret"

\* The call caller p completed before the one it is in.
Before(p) == prev[p].pc = "ret"

\* How often the call with frame f made system call s.
Count(f, s) == Cardinality({i \in 1..Len(f.sys) : f.sys[i] = s})

\* The fixed tuple with descriptor d, written out.
FixedTuple(d) ==
    [ version |-> 0,
      contents_encryption_mode |-> 1,
      filenames_encryption_mode |-> 4,
      flags |-> 0,
      master_key_descriptor |-> d ]

\* The system calls of a call of e4crypt_policy_get that reaches the kernel,
\* and of e4crypt_policy_set that reaches it.
GetTrace == <<"access", "open", "ioctl_get", "close">>
SetTrace == <<"access", "open", "opendir", "closedir", "ioctl_set", "close">>

\* The directory holds an entry other than ".", ".." and "lost+found".
HoldsFile(d) ==
    \E i \in 1..Len(listing[d]) : listing[d][i] \notin {".", "..", "lost+found"}

\* ---------------------------------------------------------------- C1
\* C1: after a successful setPolicy(P, D1), a following ensurePolicy(P, D2)
\* with D2 # D1 by the same caller returns failure on the comparison path
\* (it read D1), has issued no set request, and the kernel still records the
\* fixed tuple with D1; a getPolicy(P) following that failed ensure returns
\* success with the descriptor the ensure found.
C1_Conflict ==
    \A p \in Procs :
        /\ ( /\ Returned(p) /\ Before(p)
             /\ proc[p].op = "ensure" /\ prev[p].op = "set"
             /\ proc[p].directory = prev[p].directory
             /\ prev[p].ret = 0
             /\ proc[p].policy_length = 8
             /\ proc[p].policy # prev[p].policy )
           => /\ proc[p].ret = -1
              /\ proc[p].sys = GetTrace
              /\ proc[p].existing_policy = prev[p].policy
              /\ kernelPolicy[proc[p].directory] = FixedTuple(prev[p].policy)
        /\ ( /\ Returned(p) /\ Before(p)
             /\ proc[p].op = "get" /\ prev[p].op = "ensure"
             /\ proc[p].directory = prev[p].directory
             /\ proc[p].policy_length = 8
             /\ prev[p].ret = -1
             /\ prev[p].sys = GetTrace
             /\ prev[p].get_ioctl = "ok"
             /\ prev[p].existing_policy # UninitBuf )
           => /\ proc[p].ret = 0
              /\ proc[p].policy = prev[p].existing_policy

C1_Witness ==
    \E p \in Procs :
        /\ Returned(p) /\ Before(p)
        /\ proc[p].op = "ensure" /\ prev[p].op = "set"
        /\ prev[p].ret = 0
        /\ prev[p].policy = Desc1 /\ proc[p].policy = Desc2
        /\ proc[p].ret = -1
        /\ kernelPolicy[proc[p].directory] = FixedTuple(Desc1)

\* ---------------------------------------------------------------- C2
\* C2: whenever a caller is between calls or has its result, no directory
\* descriptor opened by its calls is still open.
C2_NoOpenHandles ==
    \A p \in Procs : proc[p].pc \in {"idle", "ret"} => openFds[p] = 0

\* ---------------------------------------------------------------- C3
\* C3: when ensurePolicy(P, D) succeeded and the same caller calls
\* ensurePolicy(P, D) again, the second call succeeds too and issues the get
\* request only: no set request.
C3_Idempotent ==
    \A p \in Procs :
        ( /\ Returned(p) /\ Before(p)
          /\ proc[p].op = "ensure" /\ prev[p].op = "ensure"
          /\ proc[p].directory = prev[p].directory
          /\ proc[p].policy = prev[p].policy
          /\ prev[p].ret = 0 )
        => /\ proc[p].ret = 0
           /\ proc[p].sys = GetTrace
           /\ Count(proc[p], "ioctl_set") = 0

\* The first call wrote the policy, the second only read it.
C3_Witness ==
    \E p \in Procs :
        /\ Returned(p) /\ Before(p)
        /\ proc[p].op = "ensure" /\ prev[p].op = "ensure"
        /\ proc[p].policy = prev[p].policy
        /\ prev[p].ret = 0 /\ Count(prev[p], "ioctl_set") = 1
        /\ proc[p].ret = 0 /\ Count(proc[p], "ioctl_set") = 0

\* ---------------------------------------------------------------- C4
\* C4: when ensurePolicy(P, D) succeeded, a getPolicy(P) the same caller
\* makes next succeeds and its output buffer holds D byte for byte.
C4_RoundTrip ==
    \A p \in Procs :
        ( /\ Returned(p) /\ Before(p)
          /\ proc[p].op = "get" /\ prev[p].op = "ensure"
          /\ proc[p].directory = prev[p].directory
          /\ proc[p].policy_length = 8
          /\ prev[p].ret = 0 )
        => /\ proc[p].ret = 0
           /\ \A i \in 1..8 : proc[p].policy[i] = prev[p].policy[i]

\* The ensure applied D to an empty directory without a policy.
C4_Witness ==
    \E p \in Procs :
        /\ Returned(p) /\ Before(p)
        /\ proc[p].op = "get" /\ prev[p].op = "ensure"
        /\ listing[proc[p].directory] = <<".", "..">>
        /\ prev[p].ret = 0 /\ Count(prev[p], "ioctl_set") = 1
        /\ prev[p].policy = Desc2
        /\ proc[p].ret = 0 /\ proc[p].policy = Desc2

\* ---------------------------------------------------------------- C5
\* C5: a setPolicy on a directory that holds an entry other than ".", ".."
\* and "lost+found" returns failure without having issued a set request, and
\* no step of that call changes the record the kernel stores.
C5_NonEmptyRefused ==
    /\ [](\A p \in Procs :
            (Returned(p) /\ proc[p].op = "set" /\ HoldsFile(proc[p].directory))
            => /\ proc[p].ret = -1
               /\ Count(proc[p], "ioctl_set") = 0)
    /\ [][\A p \in Procs :
            ( /\ proc[p].pc # "idle"
              /\ proc[p].op = "set"
              /\ HoldsFile(proc[p].directory)
              /\ proc'[p] # proc[p] )
            => kernelPolicy' = kernelPolicy]_vars

\* The call passed the length, access and open checks and stopped at the
\* emptiness check.
C5_Witness ==
    \E p \in Procs :
        /\ Returned(p) /\ proc[p].op = "set"
        /\ HoldsFile(proc[p].directory)
        /\ proc[p].sys = <<"access", "open", "opendir", "closedir">>
        /\ proc[p].ret = -1

\* ---------------------------------------------------------------- C6
\* C6: a call of any of the three functions with a length other than 8 has
\* returned -1 by the time it is entered, with no system call made, no ioctl
\* issued and no local or output buffer written.
C6_LengthValidation ==
    \A p \in Procs :
        (proc[p].pc # "idle" /\ proc[p].policy_length # 8)
        => /\ proc[p].pc = "ret"
           /\ proc[p].ret = -1
           /\ proc[p].sys = << >>
           /\ proc[p].get_ioctl = "none" /\ proc[p].set_ioctl = "none"
           /\ proc[p].get_eep = UninitEep /\ proc[p].set_eep = UninitEep
           /\ proc[p].existing_policy = UninitBuf
           /\ proc[p].policy \in Buffers \cup OutBuffers

\* Both callers were turned away, one for a long and one for a short buffer.
C6_Witness ==
    \E p, q \in Procs :
        /\ Returned(p) /\ proc[p].op = "ensure" /\ proc[p].policy_length = 9
        /\ Returned(q) /\ proc[q].op = "get" /\ proc[q].policy_length = 7
        /\ proc[p].ret = -1 /\ proc[q].ret = -1
        /\ Before(q) /\ prev[q].op = "set" /\ prev[q].policy_length = 9

\* ---------------------------------------------------------------- C7
\* Two ensurePolicy calls that have both returned, on the same empty
\* directory, each after its get request was rejected and its set request
\* was issued: both observed Unset and both attempted setPolicy.
Raced(p, q) ==
    /\ p # q
    /\ Returned(p) /\ Returned(q)
    /\ proc[p].op = "ensure" /\ proc[q].op = "ensure"
    /\ proc[p].directory = proc[q].directory
    /\ listing[proc[p].directory] = <<".", "..">>
    /\ proc[p].get_ioctl = "failed" /\ proc[q].get_ioctl = "failed"
    /\ Count(proc[p], "ioctl_set") >= 1 /\ Count(proc[q], "ioctl_set") >= 1

\* C7 as stated: of two racing ensurePolicy calls exactly one succeeds and
\* the other fails, each having issued one set request.
C7_ExactlyOneWins ==
    \A p, q \in Procs :
        Raced(p, q)
        => /\ (proc[p].ret = 0) # (proc[q].ret = 0)
           /\ Count(proc[p], "ioctl_set") = 1

\* C7 as amended: each of two racing ensurePolicy calls issues one get and
\* one set request, never a second one, and returns the kernel's verdict on
\* its own set request; at least one of them succeeds; if their descriptors
\* differ exactly one succeeds, and the directory holds the fixed tuple with
\* the descriptor of a call that succeeded.
C7_RaceSurfaced ==
    \A p, q \in Procs :
        Raced(p, q)
        => /\ proc[p].sys = GetTrace \o SetTrace
           /\ (proc[p].ret = 0) = (proc[p].set_ioctl = "ok")
           /\ proc[p].ret = 0 \/ proc[q].ret = 0
           /\ proc[p].policy # proc[q].policy
                => (proc[p].ret = 0) # (proc[q].ret = 0)
           /\ proc[p].ret = 0
                => kernelPolicy[proc[p].directory] = FixedTuple(proc[p].policy)

\* The two calls asked for different descriptors and the second was refused.
C7_Witness ==
    \E p, q \in Procs :
        /\ Raced(p, q)
        /\ proc[p].policy = Desc1 /\ proc[q].policy = Desc2
        /\ proc[p].ret = -1 /\ proc[q].ret = 0
        /\ proc[p].set_ioctl = "failed"

\* ---------------------------------------------------------------- C8
\* setPolicy(P, D) succeeded on an empty directory and the same caller's
\* next call, setPolicy(P, D) again, has returned.
SetTwice(p) ==
    /\ Returned(p) /\ Before(p)
    /\ proc[p].op = "set" /\ prev[p].op = "set"
    /\ proc[p].directory = prev[p].directory
    /\ listing[proc[p].directory] = <<".", "..">>
    /\ proc[p].policy = prev[p].policy
    /\ prev[p].ret = 0

\* C8 as stated: the second of two setPolicy calls with the same descriptor
\* on an initially empty directory fails.
C8_SecondSetFails ==
    \A p \in Procs : SetTwice(p) => proc[p].ret = -1

\* C8 as amended: the second call passes the length, access, open and
\* emptiness checks (the directory is still empty, so it is never refused as
\* not empty), issues the set request again and returns the kernel's verdict
\* on it; the directory keeps the fixed tuple with D either way.
C8_SecondSetAsksKernel ==
    \A p \in Procs :
        SetTwice(p)
        => /\ proc[p].sys = SetTrace
           /\ (proc[p].ret = 0) = (proc[p].set_ioctl = "ok")
           /\ (proc[p].ret = -1) = (proc[p].set_ioctl = "failed")
           /\ kernelPolicy[proc[p].directory] = FixedTuple(proc[p].policy)

C8_Witness ==
    \E p \in Procs :
        /\ SetTwice(p)
        /\ prev[p].sys = SetTrace /\ prev[p].set_ioctl = "ok"
        /\ proc[p].sys = SetTrace /\ proc[p].set_ioctl = "failed"
        /\ proc[p].ret = -1

\* ---------------------------------------------------------------- C9
\* C9 as stated: at most one set request per directory is ever accepted
\* (with the record, once there, never changing).
C9_OneAcceptedSet ==
    \A d \in Dirs : setAccepted[d] <= 1

\* C9 as amended: once a directory holds a record no step changes or removes
\* it, so a record is created at most once; a set request accepted later
\* carried exactly the record already stored.
C9_CreatedOnce ==
    [][\A d \in Dirs :
          /\ kernelPolicy[d] # NoPolicy => kernelPolicy'[d] = kernelPolicy[d]
          /\ (setAccepted'[d] # setAccepted[d] /\ kernelPolicy[d] # NoPolicy)
               => \E p \in Procs :
                      /\ proc[p].pc = "set_ioctl"
                      /\ proc'[p].pc = "ret" /\ proc'[p].ret = 0
                      /\ kernelPolicy[d] = FixedTuple(proc[p].policy)]_vars

\* A policy was created by one call and a later identical set request was
\* accepted too.
C9_Witness ==
    \E d \in Dirs :
        /\ setAccepted[d] = 2
        /\ kernelPolicy[d] = FixedTuple(Desc2)

\* --------------------------------------------------------------- C10
\* C10: a getPolicy with length 8 returns success iff its get request
\* succeeded and the record read has version 0, contents mode 1, filenames
\* mode 4 and flags 0; it then holds the record's 8 descriptor bytes, and the
\* record read is the one the kernel stores.
C10_GetAcceptsFixedTuple ==
    \A p \in Procs :
        (Returned(p) /\ proc[p].op = "get" /\ proc[p].policy_length = 8)
        => /\ (proc[p].ret = 0) =
                 ( /\ proc[p].get_ioctl = "ok"
                   /\ proc[p].get_eep.version = 0
                   /\ proc[p].get_eep.contents_encryption_mode = 1
                   /\ proc[p].get_eep.filenames_encryption_mode = 4
                   /\ proc[p].get_eep.flags = 0 )
           /\ proc[p].ret \in {0, -1}
           /\ proc[p].get_ioctl = "ok"
                => proc[p].get_eep = kernelPolicy[proc[p].directory]
           /\ proc[p].ret = 0
                => \A i \in 1..8 :
                       proc[p].policy[i] = proc[p].get_eep.master_key_descriptor[i]

\* The get request succeeded, only the flags deviate, and the call failed.
C10_Witness ==
    \E p \in Procs :
        /\ Returned(p) /\ proc[p].op = "get" /\ proc[p].policy_length = 8
        /\ proc[p].get_ioctl = "ok"
        /\ proc[p].get_eep = Eep(0, 1, 4, 2, Desc1)
        /\ proc[p].ret = -1

\* --------------------------------------------------------------- C11
\* C11: every set request issued, by setPolicy or by ensurePolicy, carries
\* version 0, contents mode 1, filenames mode 4, flags 0 and the caller's 8
\* descriptor bytes; a call that issued none has built no record.
C11_FixedTupleWritten ==
    \A p \in Procs :
        proc[p].pc # "idle"
        => /\ Count(proc[p], "ioctl_set") > 0
                => /\ proc[p].op \in {"set", "ensure"}
                   /\ proc[p].set_eep.version = 0
                   /\ proc[p].set_eep.contents_encryption_mode = 1
                   /\ proc[p].set_eep.filenames_encryption_mode = 4
                   /\ proc[p].set_eep.flags = 0
                   /\ Len(proc[p].set_eep.master_key_descriptor) = 8
                   /\ \A i \in 1..8 :
                          proc[p].set_eep.master_key_descriptor[i] = proc[p].policy[i]
           /\ Count(proc[p], "ioctl_set") = 0 => proc[p].set_eep = UninitEep

\* An ensurePolicy wrote Desc2, whose last byte has the top bit set, and the
\* kernel stores what it sent.
C11_Witness ==
    \E p \in Procs :
        /\ Returned(p) /\ proc[p].op = "ensure"
        /\ proc[p].policy = Desc2
        /\ proc[p].set_ioctl = "ok"
        /\ kernelPolicy[proc[p].directory] = proc[p].set_eep
        /\ proc[p].set_eep = FixedTuple(Desc2)

\* --------------------------------------------------------------- C13
\* The e4crypt_policy_get inside the ensure call with frame f returned 0: its
\* ioctl succeeded and the record read is the fixed tuple, whose descriptor
\* is now in existing_policy.
GetSucceeded(f) ==
    /\ f.get_ioctl = "ok"
    /\ f.get_eep = FixedTuple(f.existing_policy)

\* The four ways an ensure call ends.
Matching(f) ==
    /\ GetSucceeded(f) /\ f.existing_policy = f.policy
    /\ f.ret = 0 /\ f.sys = GetTrace

Conflicting(f) ==
    /\ GetSucceeded(f) /\ f.existing_policy # f.policy
    /\ f.ret = -1 /\ f.sys = GetTrace

Applied(f) ==
    /\ ~GetSucceeded(f) /\ f.existing_policy = UninitBuf
    /\ f.ret = 0 /\ f.set_ioctl = "ok"
    /\ f.sys = GetTrace \o SetTrace

Failed(f) ==
    /\ ~GetSucceeded(f) /\ f.existing_policy = UninitBuf
    /\ f.ret = -1 /\ f.set_ioctl # "ok"
    /\ Count(f, "ioctl_set") <= 1
    /\ Count(f, "ioctl_set") = 1 => f.sys = GetTrace \o SetTrace

\* C13: an ensurePolicy call with a valid length that has returned is in
\* exactly one of Matching, Conflicting, Applied, Failed; on Matching and
\* Conflicting no set request was issued, on the Applying path at most one,
\* and an ensure call is on the set path only after its own getPolicy has
\* returned failure.
C13_EnsureStateMachine ==
    \A p \in Procs :
        (proc[p].pc # "idle" /\ proc[p].op = "ensure" /\ proc[p].policy_length = 8)
        => /\ Returned(p)
                => /\ Cardinality({t \in {"Matching", "Conflicting", "Applied", "Failed"} :
                          \/ t = "Matching" /\ Matching(proc[p])
                          \/ t = "Conflicting" /\ Conflicting(proc[p])
                          \/ t = "Applied" /\ Applied(proc[p])
                          \/ t = "Failed" /\ Failed(proc[p])}) = 1
                   /\ (Matching(proc[p]) \/ Conflicting(proc[p]))
                          => Count(proc[p], "ioctl_set") = 0
           /\ Count(proc[p], "ioctl_set") <= 1
           /\ (proc[p].pc \in {"set_guard", "set_ioctl"} \/ Count(proc[p], "ioctl_set") > 0)
                => /\ ~GetSucceeded(proc[p])
                   /\ proc[p].existing_policy = UninitBuf
                   /\ Count(proc[p], "access") >= 1
                   /\ proc[p].get_ioctl = "none" => proc[p].sys[Len(proc[p].sys)] # "ioctl_get"

\* Three of the four ends in one run: the ensure of one caller was Applied,
\* the ensure racing with it Failed on its own set request, and a later
\* ensure with another descriptor is Conflicting.
C13_Witness ==
    \E p, q \in Procs :
        /\ Before(p) /\ prev[p].op = "ensure" /\ Applied(prev[p])
        /\ Returned(p) /\ proc[p].op = "ensure" /\ Conflicting(proc[p])
        /\ Returned(q) /\ proc[q].op = "ensure" /\ Failed(proc[q])
        /\ Count(proc[q], "ioctl_set") = 1

\* --------------------------------------------------------------- C14
\* The record the get request of frame f read is not the fixed tuple.
ReadOtherTuple(f) ==
    /\ f.get_ioctl = "ok"
    /\ \/ f.get_eep.version # 0
       \/ f.get_eep.contents_encryption_mode # 1
       \/ f.get_eep.filenames_encryption_mode # 4
       \/ f.get_eep.flags # 0

\* C14: an ensurePolicy whose get request was rejected, or answered with a
\* tuple other than the fixed one, goes on to setPolicy after the read (the
\* access test of setPolicy follows the close of getPolicy) and returns what
\* setPolicy returns: 0 exactly when the set request was issued and accepted.
C14_ReadFailureIsUnset ==
    \A p \in Procs :
        ( /\ Returned(p) /\ proc[p].op = "ensure"
          /\ proc[p].get_ioctl = "failed" \/ ReadOtherTuple(proc[p]) )
        => /\ SubSeq(proc[p].sys, 1, 4) = GetTrace
           /\ Len(proc[p].sys) > 4
           /\ SubSeq(proc[p].sys, 5, Len(proc[p].sys)) \in
                  {SetTrace, <<"access", "open", "opendir", "closedir">>}
           /\ proc[p].ret = 0 <=> proc[p].set_ioctl = "ok"
           /\ proc[p].ret = -1 <=> proc[p].set_ioctl # "ok"
           /\ proc[p].set_ioctl = "none" <=> HoldsFile(proc[p].directory)

\* An ensure read a record with another tuple, went on to setPolicy, issued
\* the set request and returned the kernel's rejection; the record is as it
\* was.
C14_Witness ==
    \E p \in Procs :
        /\ Returned(p) /\ proc[p].op = "ensure"
        /\ ReadOtherTuple(proc[p])
        /\ proc[p].sys = GetTrace \o SetTrace
        /\ proc[p].set_ioctl = "failed" /\ proc[p].ret = -1
        /\ kernelPolicy[proc[p].directory] = proc[p].get_eep

\* --------------------------------------------------------------- C15
\* C15: a setPolicy call that issued the set request had a length of 8, a
\* writable directory that opens and lists no entry other than ".", ".."
\* and "lost+found", and made its system calls in the order access, open,
\* listing, ioctl; a call that failed one of the four tests returned failure
\* at that test with no request issued; and setPolicy returns success
\* exactly when the request was issued and the kernel accepted it.
C15_GuardGatesSet ==
    \A p \in Procs :
        (Returned(p) /\ proc[p].op = "set")
        => LET f == proc[p]
               d == f.directory
           IN /\ Count(f, "ioctl_set") > 0
                   => /\ f.policy_length = 8
                      /\ writable[d] /\ openable[d] /\ ~HoldsFile(d)
                      /\ f.sys = SetTrace
              /\ f.policy_length # 8 => f.sys = << >> /\ f.ret = -1
              /\ (f.policy_length = 8 /\ ~writable[d])
                   => f.sys = <<"access">> /\ f.ret = -1
              /\ (f.policy_length = 8 /\ writable[d] /\ ~openable[d])
                   => f.sys = <<"access", "open">> /\ f.ret = -1
              /\ (f.policy_length = 8 /\ writable[d] /\ openable[d] /\ HoldsFile(d))
                   => f.sys = <<"access", "open", "opendir", "closedir">> /\ f.ret = -1
              /\ f.ret = 0 <=> (Count(f, "ioctl_set") = 1 /\ f.set_ioctl = "ok")
              /\ f.ret \in {0, -1}

\* A setPolicy that passed all four tests and was rejected by the kernel,
\* after one that was accepted.
C15_Witness ==
    \E p \in Procs :
        /\ Returned(p) /\ proc[p].op = "set"
        /\ proc[p].sys = SetTrace /\ proc[p].set_ioctl = "failed" /\ proc[p].ret = -1
        /\ Before(p) /\ prev[p].op = "set" /\ prev[p].ret = 0

\* --------------------------------------------------------------- C17
\* Caller p is inside one of the three functions.
InCall(p) == proc[p].pc \in {"set_guard", "set_ioctl", "get_guard", "get_ioctl"}

\* C17: every call returns; a setPolicy or getPolicy call makes at most one
\* access, one open, one ioctl and one close, an ensurePolicy call at most
\* one get request and one set request (and no more than the system calls of
\* one getPolicy and one setPolicy), and every step of a call adds to the
\* system calls it has made, so none is repeated without end.
C17_TerminatesBounded ==
    /\ [](\A p \in Procs :
            proc[p].pc # "idle"
            => LET f == proc[p]
               IN /\ f.op \in {"set", "get"}
                       => /\ Count(f, "access") <= 1
                          /\ Count(f, "open") <= 1
                          /\ Count(f, "ioctl_set") + Count(f, "ioctl_get") <= 1
                          /\ Count(f, "close") <= 1
                          /\ Count(f, "opendir") <= 1
                          /\ Count(f, "closedir") <= 1
                  /\ f.op = "ensure"
                       => /\ Count(f, "ioctl_get") <= 1
                          /\ Count(f, "ioctl_set") <= 1
                          /\ Count(f, "access") <= 2
                          /\ Count(f, "open") <= 2
                          /\ Count(f, "close") <= 2
                  /\ f.op = "get" => Count(f, "ioctl_set") = 0
                  /\ f.op = "set" => Count(f, "ioctl_get") = 0)
    /\ [][\A p \in Procs :
            (InCall(p) /\ proc'[p] # proc[p])
            => /\ Len(proc'[p].sys) > Len(proc[p].sys)
               /\ proc'[p].pc # proc[p].pc]_vars
    /\ \A p \in Procs : [](InCall(p) => <>Returned(p))

\* An ensure call has returned after the system calls of one getPolicy and
\* one setPolicy, the longest run a call can make.
C17_Witness ==
    \E p \in Procs :
        /\ Returned(p) /\ proc[p].op = "ensure"
        /\ proc[p].sys = GetTrace \o SetTrace
        /\ Len(proc[p].sys) = 10

\* --------------------------------------------------------------- C18
\* C18: on a directory the caller may not write, a getPolicy call with a
\* valid length returns failure after the access test alone, with no open
\* and no ioctl, whatever policy the directory has; an ensurePolicy call
\* there returns failure after the access tests of its getPolicy and its
\* setPolicy, with no open and no control request of either kind, also when
\* the directory's policy is the fixed tuple with the descriptor asked for.
C18_GetNeedsWritePermission ==
    \A p \in Procs :
        ( /\ proc[p].pc # "idle"
          /\ proc[p].op \in {"get", "ensure"}
          /\ proc[p].policy_length = 8
          /\ ~writable[proc[p].directory] )
        => LET f == proc[p]
           IN /\ Count(f, "open") = 0
              /\ Count(f, "ioctl_get") = 0
              /\ Count(f, "ioctl_set") = 0
              /\ f.get_ioctl = "none" /\ f.set_ioctl = "none"
              /\ f.existing_policy = UninitBuf
              /\ Returned(p)
                   => /\ f.ret = -1
                      /\ f.op = "get" => f.sys = <<"access">>
                      /\ f.op = "ensure" => f.sys = <<"access", "access">>

\* ensurePolicy asked for the descriptor the directory's recognised policy
\* has, on a directory the caller may not write, and returned failure.
C18_Witness ==
    \E p \in Procs :
        /\ Returned(p) /\ proc[p].op = "ensure"
        /\ ~writable[proc[p].directory]
        /\ kernelPolicy[proc[p].directory] = FixedTuple(proc[p].policy)
        /\ proc[p].policy_length = 8
        /\ proc[p].ret = -1
        /\ proc[p].sys = <<"access", "access">>

\* --------------------------------------------------------------- C19
\* C19: a getPolicy call issues no set request and none of its steps changes
\* the kernel's record of any directory; when it returns failure (bad
\* length, access, open, rejected request, other tuple) the caller's buffer
\* holds what it held at the call, and when it returns success the buffer
\* holds the descriptor of the record read.
C19_GetReadOnly ==
    /\ [](\A p \in Procs :
            (proc[p].pc # "idle" /\ proc[p].op = "get")
            => /\ Count(proc[p], "ioctl_set") = 0
               /\ proc[p].set_ioctl = "none" /\ proc[p].set_eep = UninitEep
               /\ proc[p].pc # "set_guard" /\ proc[p].pc # "set_ioctl"
               /\ (Returned(p) /\ proc[p].ret # 0)
                    => proc[p].policy = proc[p].policy_in
               /\ (Returned(p) /\ proc[p].ret = 0)
                    => proc[p].policy = proc[p].get_eep.master_key_descriptor
               /\ ~Returned(p) => proc[p].policy = proc[p].policy_in)
    /\ [][\A p \in Procs :
            (proc[p].pc # "idle" /\ proc[p].op = "get" /\ proc'[p] # proc[p]
             /\ \A q \in Procs \ {p} : proc'[q] = proc[q])
            => /\ kernelPolicy' = kernelPolicy
               /\ setAccepted' = setAccepted]_vars

\* A getPolicy read a record with another tuple, whose descriptor differs
\* from what the buffer held, returned failure and left the buffer alone.
C19_Witness ==
    \E p \in Procs :
        /\ Returned(p) /\ proc[p].op = "get"
        /\ proc[p].ret = -1
        /\ proc[p].get_ioctl = "ok"
        /\ proc[p].get_eep.master_key_descriptor # proc[p].policy_in
        /\ proc[p].policy = proc[p].policy_in
        /\ kernelPolicy[proc[p].directory] = proc[p].get_eep

\* --------------------------------------------------------------- C20
\* The last log line of the call with frame f.
LastLog(f) == f.log[Len(f.log)]

\* The log line with which e4crypt_policy_get reports a rejected request.
GetRejectedLine(f) ==
    [ level |-> "WARNING",
      text |-> "Failed to get encryption policy for ",
      args |-> <<f.directory>> ]

\* C20: a call of any of the three functions that returned failure has
\* emitted at least one log line, and its last line is at error or warning
\* level; a call whose set request was accepted ends with an info line that
\* carries the directory path and the 16 hex characters of the descriptor;
\* a rejected get request is reported by a line at warning level, which is
\* the only line of a getPolicy call that fails so and the first of an
\* ensurePolicy call, and that line is never at error level.
C20_Diagnostics ==
    \A p \in Procs :
        Returned(p)
        => LET f == proc[p]
           IN /\ f.ret # 0
                   => /\ Len(f.log) >= 1
                      /\ LastLog(f).level \in {"ERROR", "WARNING"}
              /\ (f.op = "set" /\ f.ret = 0)
                   => /\ Len(f.log) = 1
                      /\ LastLog(f).level = "INFO"
                      /\ LastLog(f).args = <<f.directory, PolicyHex(f.policy)>>
                      /\ Len(CString(LastLog(f).args[2], 1)) = 16
              /\ (f.op = "ensure" /\ f.set_ioctl = "ok")
                   => /\ LastLog(f).level = "INFO"
                      /\ LastLog(f).args = <<f.directory, PolicyHex(f.policy)>>
              /\ f.get_ioctl = "failed"
                   => /\ f.log[1] = GetRejectedLine(f)
                      /\ f.op = "get" => f.log = <<GetRejectedLine(f)>>
                      /\ \A k \in 1..Len(f.log) :
                             f.log[k].text = GetRejectedLine(f).text
                             => f.log[k].level = "WARNING"
              /\ (f.op = "get" /\ f.ret # 0 /\ f.get_ioctl # "failed")
                   => Len(f.log) = 1 /\ LastLog(f).level = "ERROR"

\* A getPolicy whose request was rejected logged one warning, and the
\* setPolicy of the same caller after it logged the path and the hex string
\* of Desc2.
C20_Witness ==
    \E p \in Procs :
        /\ Before(p) /\ prev[p].op = "get" /\ prev[p].ret = -1
        /\ prev[p].get_ioctl = "failed"
        /\ prev[p].log = <<GetRejectedLine(prev[p])>>
        /\ Returned(p) /\ proc[p].op = "set" /\ proc[p].ret = 0
        /\ proc[p].policy = Desc2
        /\ LastLog(proc[p]).args[1] = "dirA"
        /\ CString(LastLog(proc[p]).args[2], 1) =
               <<"0", "0", "1", "1", "2", "2", "3", "3",
                 "4", "4", "5", "5", "6", "6", "f", "8">>

\* --------------------------------------------------------------- C12
\* The lowercase hexadecimal digit for v in 0..15.
HexDigit(v) ==
    CASE v = 0 -> "0" [] v = 1 -> "1" [] v = 2 -> "2" [] v = 3 -> "3"
      [] v = 4 -> "4" [] v = 5 -> "5" [] v = 6 -> "6" [] v = 7 -> "7"
      [] v = 8 -> "8" [] v = 9 -> "9" [] v = 10 -> "a" [] v = 11 -> "b"
      [] v = 12 -> "c" [] v = 13 -> "d" [] v = 14 -> "e" [] v = 15 -> "f"

\* C12: for every 8-byte descriptor, with char signed or unsigned,
\* policy_to_hex fills the buffer with 16 lowercase hexadecimal characters,
\* the two of byte i at indices 2i and 2i+1 with the high nibble first, and
\* the terminator at index 16 (the 17th element); the bytes 0x00 0x11 ...
\* 0x77 give "0011223344556677".
C12_HexEncoding ==
    hexRun.pc = "done"
    => /\ Len(hexRun.hex) = 17
       /\ hexRun.hex[17] = "NUL"
       /\ \A i \in 1..8 :
              /\ hexRun.hex[2 * i - 1] = HexDigit(hexRun.policy[i] \div 16)
              /\ hexRun.hex[2 * i] = HexDigit(hexRun.policy[i] % 16)
       /\ Len(CString(hexRun.hex, 1)) = 16
       /\ hexRun.policy = <<0, 17, 34, 51, 68, 85, 102, 119>>
              => CString(hexRun.hex, 1) =
                     <<"0", "0", "1", "1", "2", "2", "3", "3",
                       "4", "4", "5", "5", "6", "6", "7", "7">>

\* policy_to_hex has run on a descriptor whose third byte is 0xA5, held in
\* a signed char, and stored "a5" for it.
C12_Witness ==
    /\ hexRun.pc = "done"
    /\ hexRun.char_signed
    /\ hexRun.policy[3] = 165
    /\ hexRun.hex[5] = "a" /\ hexRun.hex[6] = "5"
    /\ hexRun.hex[17] = "NUL"

\* --------------------------------------------------------------- C16
\* The listing has an entry other than ".", ".." and "lost+found".
ListsFile(entries) ==
    \E i \in 1..Len(entries) : entries[i] \notin {".", "..", "lost+found"}

\* C16: on every listing that contains "." and "..", is_dir_empty returns
\* true exactly when no entry is other than ".", ".." and "lost+found",
\* wherever "lost+found" stands; the directory stream is open only while the
\* function reads it and is closed when the function has returned, also
\* when the loop was left before the end of the listing; and the function
\* the callers use in e4crypt_policy_set gives the same answer.
C16_IsDirEmpty ==
    /\ scanRun.pc = "done"
         => /\ scanRun.ret = ~ListsFile(scanRun.entries)
            /\ scanRun.dir = "closed"
            /\ scanRun.ret = is_dir_empty(scanRun.entries)
    /\ scanRun.pc \in {"readdir", "closedir"} => scanRun.dir = "open"
    /\ scanRun.pc = "opendir" => scanRun.dir = "none"

\* is_dir_empty left the loop with entries unread, "lost+found" among the
\* entries it had read, and returned false with the stream closed.
C16_Witness ==
    /\ scanRun.pc = "done"
    /\ scanRun.next <= Len(scanRun.entries)
    /\ \E i \in 1..(scanRun.next - 1) : scanRun.entries[i] = "lost+found"
    /\ scanRun.ret = FALSE
    /\ scanRun.dir = "closed"

====
